---- MODULE Spec2Model ----
(***************************************************************************)
(* A model of the bevy-debug-camera systems (src/src/systems.rs) and the   *)
(* resources they read and write (src/src/resources.rs).                   *)
(*                                                                         *)
(* Numbers.  f32 quantities are kept exact by fixing their unit:           *)
(*   - input values, intents and positions are stored in HALVES (the       *)
(*     stored integer is twice the f32 value), so 0.5 is stored as 1 and   *)
(*     a button's 1.0 as 2;                                                *)
(*   - elapsed time and the cameras' speeds are whole numbers;             *)
(*   - basis vectors (fwd, up, right) are stored in units;                 *)
(*   - an angle stored in halves is a number of quarter turns, so that the *)
(*     sine and cosine of every angle of the model are integers.           *)
(* Option<T> is a sequence of length 0 (None) or 1 (Some).                 *)
(***************************************************************************)
EXTENDS Integers, Sequences, FiniteSets, TLC

VARIABLES
    active_gamepad,      \* ActiveGamepad.0 : Option<Gamepad>
    gamepad_evr,         \* GamepadEvent's not yet read by gamepad_connections
    settings,            \* GamepadSettings.default_axis_settings
    plugged,             \* the gamepads the host has physically connected
    seen,                \* the gamepads connected according to the events read
    trace,               \* one record per event gamepad_connections has read
    debug_camera_active, \* DebugCameraActive
    windows,             \* Query<&mut Window, With<PrimaryWindow>>
    window_writes,       \* assignments the last cursor_grab_system run made
    cursor_runs,         \* cursor_grab_system runs since the last outside write
    time,                \* Time::delta_seconds()
    keys,                \* Input<KeyCode>: the pressed keys
    axes,                \* Axis<GamepadAxis> of the active gamepad, in halves
    buttons,             \* Input<GamepadButton>: the pressed buttons
    button_axes,         \* Axis<GamepadButton>, in halves
    motion_evr,          \* MouseMotion events not yet read
    cameras,             \* Query<&mut DebugCamera>
    transforms,          \* the Transform of each camera entity
    local_translate_vec, \* translation intent of the last run, in halves
    rotate_vec,          \* rotation intent of the last run, in halves
    gamepad_bindings,    \* GamepadBindings
    last                 \* the operation that ran last

padVars == <<active_gamepad, gamepad_evr, settings, plugged, seen, trace>>
cursorVars == <<windows, window_writes, cursor_runs>>
inputVars == <<time, keys, axes, buttons, button_axes, motion_evr>>
camVars == <<cameras, transforms, local_translate_vec, rotate_vec>>
vars == <<active_gamepad, gamepad_evr, settings, plugged, seen, trace,
          debug_camera_active, windows, window_writes, cursor_runs,
          time, keys, axes, buttons, button_axes, motion_evr,
          cameras, transforms, local_translate_vec, rotate_vec,
          gamepad_bindings, last>>

None == <<>>
Some(x) == <<x>>

----------------------------------------------------------------------------
(* Bounds *)

MaxPads == 2        \* gamepad ids 0 .. MaxPads-1
MaxEvents == 5      \* gamepad events the host emits in one behaviour
MaxDelta == 1       \* elapsed time of a frame, 0 .. MaxDelta
MaxAxis == 2        \* axis and trigger values in halves, up to MaxAxis
MaxMouse == 1       \* each component of a mouse motion, -MaxMouse .. MaxMouse
MaxPos == 3         \* camera positions (in halves) stay within -MaxPos .. MaxPos

Pads == 0 .. (MaxPads - 1)

----------------------------------------------------------------------------
(* Gamepad connection tracker: gamepad_connections, systems.rs 188-236 *)

\* The values the axis settings take: the two the system writes (lines 211
\* and 212) and the ones the host starts with.
DeadzoneLower == "-0.1"
DeadzoneUpper == "0.1"
DefaultDeadzoneLower == "host default lower bound"
DefaultDeadzoneUpper == "host default upper bound"

ConnectedEv(id) == [kind |-> "Connected", gamepad |-> id]
DisconnectedEv(id) == [kind |-> "Disconnected", gamepad |-> id]
OtherEv(id) == [kind |-> "Other", gamepad |-> id]

\* The state the loop over the events carries from one event to the next.
PadState == [active |-> active_gamepad, settings |-> settings,
             seen |-> seen, trace |-> trace]

Note(st, ev, after, logged, writes) ==
    Append(st.trace, [ev |-> ev, before |-> st.active, after |-> after,
                      logged |-> logged, writes |-> writes])

\* GamepadConnection::Connected arm (systems.rs 200-214), hot-swapping variant:
\* the is_none() test is dropped.
OnConnectedHotSwap(st, ev) ==
    [active |-> Some(ev.gamepad),
     settings |-> [deadzone_lowerbound |-> DeadzoneLower,
                   deadzone_upperbound |-> DeadzoneUpper],
     seen |-> st.seen \cup {ev.gamepad},
     trace |-> Note(st, ev, Some(ev.gamepad),
                    <<[event |-> "active_gamepad_set", gamepad_id |-> ev.gamepad]>>, 2)]

\* GamepadConnection::Connected arm (systems.rs 200-214)
OnConnected(st, ev) ==
    IF st.active = None
    THEN [active |-> Some(ev.gamepad),
          settings |-> [deadzone_lowerbound |-> DeadzoneLower,
                        deadzone_upperbound |-> DeadzoneUpper],
          seen |-> st.seen \cup {ev.gamepad},
          trace |-> Note(st, ev, Some(ev.gamepad),
                         <<[event |-> "active_gamepad_set", gamepad_id |-> ev.gamepad]>>, 2)]
    ELSE [st EXCEPT !.seen = st.seen \cup {ev.gamepad},
                    !.trace = Note(st, ev, st.active, <<>>, 0)]

\* GamepadConnection::Disconnected arm (systems.rs 215-230), variant that
\* clears the active gamepad without comparing ids.
OnDisconnectedAny(st, ev) ==
    LET remove_gamepad == st.active # None
    IN  [st EXCEPT !.active = IF remove_gamepad THEN None ELSE st.active,
                   !.seen = st.seen \ {ev.gamepad},
                   !.trace = Note(st, ev, IF remove_gamepad THEN None ELSE st.active,
                                  IF remove_gamepad
                                  THEN <<[event |-> "active_gamepad_removed",
                                          gamepad_id |-> ev.gamepad]>>
                                  ELSE <<>>, 0)]

\* GamepadConnection::Disconnected arm, variant that never clears the active
\* gamepad.
OnDisconnectedKeep(st, ev) ==
    [st EXCEPT !.seen = st.seen \ {ev.gamepad},
               !.trace = Note(st, ev, st.active, <<>>, 0)]

\* GamepadConnection::Disconnected arm (systems.rs 215-230)
OnDisconnected(st, ev) ==
    LET remove_gamepad == st.active # None /\ st.active[1] = ev.gamepad
    IN  [st EXCEPT !.active = IF remove_gamepad THEN None ELSE st.active,
                   !.seen = st.seen \ {ev.gamepad},
                   !.trace = Note(st, ev, IF remove_gamepad THEN None ELSE st.active,
                                  IF remove_gamepad
                                  THEN <<[event |-> "active_gamepad_removed",
                                          gamepad_id |-> ev.gamepad]>>
                                  ELSE <<>>, 0)]

\* The body of the for loop: match &ev (systems.rs 195-234)
ProcessEvent(st, ev) ==
    CASE ev.kind = "Connected" -> OnConnected(st, ev)
      [] ev.kind = "Disconnected" -> OnDisconnected(st, ev)
      [] OTHER -> [st EXCEPT !.trace = Note(st, ev, st.active, <<>>, 0)]

RECURSIVE ProcessAll(_, _)
ProcessAll(st, evs) ==
    IF evs = <<>> THEN st
    ELSE ProcessAll(ProcessEvent(st, Head(evs)), Tail(evs))

gamepad_connections ==
    LET st == ProcessAll(PadState, gamepad_evr)
    IN  /\ active_gamepad' = st.active
        /\ settings' = st.settings
        /\ seen' = st.seen
        /\ trace' = st.trace
        /\ gamepad_evr' = <<>>
        /\ last' = "gamepad_connections"
        /\ UNCHANGED <<plugged, debug_camera_active, gamepad_bindings, cursorVars, inputVars, camVars>>

\* The input layer reports a gamepad being plugged in or pulled out, or any
\* other gamepad event (a button, an axis).
HostGamepadEvent ==
    /\ Len(trace) + Len(gamepad_evr) < MaxEvents
    /\ \E id \in Pads :
        \/ /\ id \notin plugged
           /\ plugged' = plugged \cup {id}
           /\ gamepad_evr' = Append(gamepad_evr, ConnectedEv(id))
        \/ /\ id \in plugged
           /\ plugged' = plugged \ {id}
           /\ gamepad_evr' = Append(gamepad_evr, DisconnectedEv(id))
        \/ /\ id \in plugged
           /\ plugged' = plugged
           /\ gamepad_evr' = Append(gamepad_evr, OtherEv(id))
    /\ last' = "HostGamepadEvent"
    /\ UNCHANGED <<active_gamepad, settings, seen, trace, debug_camera_active,
                   gamepad_bindings, cursorVars, inputVars, camVars>>

----------------------------------------------------------------------------
(* DebugCameraActive (resources.rs 9-30) and its outside writers *)

DefaultDebugCameraActive ==
    [keymouse |-> TRUE, gamepad |-> TRUE, invert_x |-> FALSE, invert_y |-> FALSE]

Toggles == [keymouse : BOOLEAN, gamepad : BOOLEAN,
            invert_x : BOOLEAN, invert_y : BOOLEAN]

\* Outside configuration code overwrites the toggle resource.
SetToggles ==
    /\ \E t \in Toggles :
        /\ t # debug_camera_active
        /\ debug_camera_active' = t
    /\ cursor_runs' = 0
    /\ last' = "SetToggles"
    /\ UNCHANGED <<padVars, gamepad_bindings, windows, window_writes, inputVars, camVars>>

----------------------------------------------------------------------------
(* Cursor grab: cursor_grab_system, systems.rs 171-184 *)

GrabModes == {"None", "Confined", "Locked"}

DefaultWindow == [cursor |-> [visible |-> TRUE, grab_mode |-> "None"]]

\* Variant of the body that toggles on every run, without the comparison of
\* line 176.
GrabAlways(window, keymouse) ==
    LET visible == ~window.cursor.visible
    IN  [cursor |-> [visible |-> visible,
                     grab_mode |-> IF visible THEN "None" ELSE "Locked"],
         writes |-> 2]

\* The body run on the primary window (systems.rs 176-182): the window after
\* the run, and the number of fields of it the run assigned.
Grab(window, keymouse) ==
    IF window.cursor.visible = keymouse
    THEN LET visible == ~window.cursor.visible
         IN  [cursor |-> [visible |-> visible,
                          grab_mode |-> IF visible THEN "None" ELSE "Locked"],
              writes |-> 2]
    ELSE [cursor |-> window.cursor, writes |-> 0]

cursor_grab_system ==
    /\ IF Len(windows) = 1
       THEN LET w == Grab(windows[1], debug_camera_active.keymouse)
            IN  /\ windows' = <<[cursor |-> w.cursor]>>
                /\ window_writes' = w.writes
       ELSE /\ windows' = windows
            /\ window_writes' = 0
    /\ cursor_runs' = IF cursor_runs < 2 THEN cursor_runs + 1 ELSE cursor_runs
    /\ last' = "cursor_grab_system"
    /\ UNCHANGED <<padVars, debug_camera_active, gamepad_bindings, inputVars, camVars>>

\* Outside code sets the cursor's visibility and grab mode, independently.
HostCursor ==
    /\ Len(windows) = 1
    /\ \E v \in BOOLEAN, g \in GrabModes :
        /\ [visible |-> v, grab_mode |-> g] # windows[1].cursor
        /\ windows' = <<[cursor |-> [visible |-> v, grab_mode |-> g]]>>
    /\ cursor_runs' = 0
    /\ last' = "HostCursor"
    /\ UNCHANGED <<padVars, debug_camera_active, gamepad_bindings, window_writes, inputVars, camVars>>

\* The host closes the primary window, or opens one.
HostWindow ==
    /\ windows' = IF Len(windows) = 1 THEN <<>> ELSE <<DefaultWindow>>
    /\ cursor_runs' = 0
    /\ last' = "HostWindow"
    /\ UNCHANGED <<padVars, debug_camera_active, gamepad_bindings, window_writes, inputVars, camVars>>

----------------------------------------------------------------------------
(* Vec3, Mat3 and Quat arithmetic, as glam computes it *)

Vec3(x, y, z) == <<x, y, z>>
Zero3 == <<0, 0, 0>>
Add(a, b) == <<a[1] + b[1], a[2] + b[2], a[3] + b[3]>>
Scale(k, a) == <<k * a[1], k * a[2], k * a[3]>>
Dot(a, b) == a[1] * b[1] + a[2] * b[2] + a[3] * b[3]
Cross(a, b) == <<a[2] * b[3] - a[3] * b[2],
                 a[3] * b[1] - a[1] * b[3],
                 a[1] * b[2] - a[2] * b[1]>>

\* floor of the square root, by bisection on lo*lo <= n < hi*hi
RECURSIVE SqrtIn(_, _, _)
SqrtIn(n, lo, hi) ==
    IF hi - lo <= 1 THEN lo
    ELSE LET mid == (lo + hi) \div 2
         IN  IF mid * mid <= n THEN SqrtIn(n, mid, hi) ELSE SqrtIn(n, lo, mid)
Sqrt(n) == SqrtIn(n, 0, n + 1)

Length(a) == Sqrt(Dot(a, a))

\* Vec3::normalize: a / |a|.  Exact whenever a lies along a coordinate axis;
\* the zero vector has no direction (NaN in f32) and is left as it is.
Normalize(a) ==
    LET n == Length(a)
    IN  IF n = 0 THEN a ELSE <<a[1] \div n, a[2] \div n, a[3] \div n>>

\* Mat3::from_cols(c1, c2, c3) * v
MatMul(c1, c2, c3, v) == Add(Add(Scale(v[1], c1), Scale(v[2], c2)), Scale(v[3], c3))

\* Cosine and sine of an angle given in quarter turns.
Cos(a) == CASE a % 4 = 0 -> 1 [] a % 4 = 2 -> -1 [] OTHER -> 0
Sin(a) == CASE a % 4 = 1 -> 1 [] a % 4 = 3 -> -1 [] OTHER -> 0

\* Quat::from_axis_angle(axis, angle) is (axis * sin(angle/2), cos(angle/2)).
\* The model keeps the axis with the cosine and sine of the whole angle, from
\* which the products of Quat * Vec3 are formed.
FromAxisAngle(axis, angle) == [axis |-> axis, cos |-> Cos(angle), sin |-> Sin(angle)]

\* Quat * Vec3.  With w = cos(angle/2) and b = axis * sin(angle/2) glam returns
\*   v * (w*w - b.b) + b * (2 * v.b) + (b x v) * (2 * w)
\* where w*w = (1 + cos)/2, sin(angle/2)^2 = (1 - cos)/2, 2*w*sin(angle/2) = sin.
QuatMul(q, v) ==
    LET a == q.axis
        twice == Add(Add(Scale((1 + q.cos) - Dot(a, a) * (1 - q.cos), v),
                         Scale(2 * Dot(v, a) * (1 - q.cos), a)),
                     Scale(2 * q.sin, Cross(a, v)))
    IN  <<twice[1] \div 2, twice[2] \div 2, twice[3] \div 2>>

----------------------------------------------------------------------------
(* Binding tables: resources.rs 32-103 *)

KeyCodes == {"W", "S", "Space", "LShift", "A", "D", "Q", "E", "X"}
GamepadAxisTypes == {"LeftStickX", "LeftStickY", "RightStickX", "RightStickY"}
GamepadButtonTypes == {"LeftTrigger", "RightTrigger", "LeftTrigger2", "RightTrigger2"}

Axis(a) == [tag |-> "Axis", id |-> a]
Button(b) == [tag |-> "Button", id |-> b]
Trigger(b) == [tag |-> "Trigger", id |-> b]

DefaultKeyboardBindings ==
    [fwd |-> "W", bwd |-> "S", up |-> "Space", down |-> "LShift",
     left |-> "A", right |-> "D", roll_left |-> "Q", roll_right |-> "E"]

DefaultGamepadBindings ==
    [fwd |-> Axis("LeftStickY"), bwd |-> Axis("LeftStickY"),
     up |-> Trigger("RightTrigger2"), down |-> Trigger("LeftTrigger2"),
     left |-> Axis("LeftStickX"), right |-> Axis("LeftStickX"),
     roll_left |-> Button("LeftTrigger"), roll_right |-> Button("RightTrigger"),
     yaw_left |-> Axis("RightStickX"), yaw_right |-> Axis("RightStickX"),
     pitch_up |-> Axis("RightStickY"), pitch_down |-> Axis("RightStickY")]

\* A table an application configures instead: yaw on the shoulder buttons,
\* roll on the triggers, forward and backward on the two halves of a stick.
ButtonGamepadBindings ==
    [fwd |-> Axis("LeftStickY"), bwd |-> Axis("LeftStickY"),
     up |-> Button("RightTrigger"), down |-> Button("LeftTrigger"),
     left |-> Axis("LeftStickX"), right |-> Axis("LeftStickX"),
     roll_left |-> Trigger("LeftTrigger2"), roll_right |-> Trigger("RightTrigger2"),
     yaw_left |-> Button("LeftTrigger"), yaw_right |-> Button("RightTrigger"),
     pitch_up |-> Axis("RightStickY"), pitch_down |-> Axis("RightStickY")]

----------------------------------------------------------------------------
(* Input abstraction: input_value, buttons_to_dir, invert (systems.rs 238-282) *)

Half == 1       \* 0.5, in halves
One == 2        \* 1.0, in halves

\* f32::signum: 1.0 for +0.0 and above, -1.0 below
Signum(v) == IF v >= 0 THEN 1 ELSE -1

\* input_value(gamepad, axes, buttons, button_axes, input, dir); ax, bt and ba
\* are the three resources as they stand for that gamepad.
input_value(ax, bt, ba, input, dir) ==
    CASE input.tag = "Axis" ->
            IF ax[input.id] # None /\ Signum(ax[input.id][1]) = Signum(dir)
            THEN ax[input.id][1] ELSE 0
      [] input.tag = "Button" ->
            IF input.id \in bt THEN Signum(dir) * One ELSE 0
      [] input.tag = "Trigger" ->
            IF ba[input.id] # None THEN ba[input.id][1] * Signum(dir) ELSE 0

Bit(b) == IF b THEN 1 ELSE 0

buttons_to_dir(positive, negative) == Bit(positive) - Bit(negative)

invert(v, inv) == IF inv THEN 0 - v ELSE v

----------------------------------------------------------------------------
(* Motion intent accumulator: camera_movement_system, systems.rs 42-102 *)

\* Variant of the gamepad translation that forgets the elapsed time.
GamepadTranslateUnscaled(b, ax, bt, ba, dt) ==
    LET left == input_value(ax, bt, ba, b.left, -1)
        right == input_value(ax, bt, ba, b.right, 1)
        fwd == input_value(ax, bt, ba, b.fwd, 1)
        bwd == input_value(ax, bt, ba, b.bwd, -1)
        up == input_value(ax, bt, ba, b.up, 1)
        down == input_value(ax, bt, ba, b.down, -1)
    IN  Vec3(fwd + bwd, up + down, left + right)

\* systems.rs 49-55
GamepadTranslate(b, ax, bt, ba, dt) ==
    LET left == input_value(ax, bt, ba, b.left, -1)
        right == input_value(ax, bt, ba, b.right, 1)
        fwd == input_value(ax, bt, ba, b.fwd, 1)
        bwd == input_value(ax, bt, ba, b.bwd, -1)
        up == input_value(ax, bt, ba, b.up, 1)
        down == input_value(ax, bt, ba, b.down, -1)
    IN  Scale(dt, Vec3(fwd + bwd, up + down, left + right))

\* Variant of the gamepad rotation that forgets yaw_left.
GamepadRotateRightOnly(b, ax, bt, ba, dt) ==
    LET yaw_right == input_value(ax, bt, ba, b.yaw_right, 1)
        pitch_up == input_value(ax, bt, ba, b.pitch_up, 1)
        pitch_down == input_value(ax, bt, ba, b.pitch_down, -1)
        roll_left == input_value(ax, bt, ba, b.roll_left, -1)
        roll_right == input_value(ax, bt, ba, b.roll_right, 1)
    IN  Scale(dt, Vec3(0 - yaw_right, pitch_up + pitch_down, roll_left + roll_right))

\* systems.rs 58-64
GamepadRotate(b, ax, bt, ba, dt) ==
    LET yaw_left == input_value(ax, bt, ba, b.yaw_left, -1)
        yaw_right == input_value(ax, bt, ba, b.yaw_right, 1)
        pitch_up == input_value(ax, bt, ba, b.pitch_up, 1)
        pitch_down == input_value(ax, bt, ba, b.pitch_down, -1)
        roll_left == input_value(ax, bt, ba, b.roll_left, -1)
        roll_right == input_value(ax, bt, ba, b.roll_right, 1)
    IN  Scale(dt, Vec3((0 - yaw_left) - yaw_right, pitch_up + pitch_down,
                       roll_left + roll_right))

\* systems.rs 78-84: d -= ev.delta for every pending event
RECURSIVE MouseDelta(_)
MouseDelta(evs) ==
    IF evs = <<>> THEN <<0, 0>>
    ELSE LET d == MouseDelta(Tail(evs))
         IN  <<d[1] - Head(evs)[1], d[2] - Head(evs)[2]>>

\* Variant of the keyboard translation at full weight (the 0.5 is missing).
KeyTranslateFull(kb, ks, dt) ==
    Scale(dt * One,
          Vec3(buttons_to_dir(kb.fwd \in ks, kb.bwd \in ks),
               buttons_to_dir(kb.up \in ks, kb.down \in ks),
               buttons_to_dir(kb.right \in ks, kb.left \in ks)))

\* systems.rs 70-75 and 88-94
KeyTranslate(kb, ks, dt) ==
    Scale(dt * Half,
          Vec3(buttons_to_dir(kb.fwd \in ks, kb.bwd \in ks),
               buttons_to_dir(kb.up \in ks, kb.down \in ks),
               buttons_to_dir(kb.right \in ks, kb.left \in ks)))

\* systems.rs 76-84 and 95-101
KeyRotate(kb, ks, evs, dt) ==
    LET mouse_delta == MouseDelta(evs)
    IN  Scale(dt * Half,
              Vec3(mouse_delta[1], mouse_delta[2],
                   buttons_to_dir(kb.roll_right \in ks, kb.roll_left \in ks)))

\* The two intent vectors of a run that got past the shortcut of line 36.
Intent(active, pad, b, kb, dt, ks, ax, bt, ba, evs) ==
    LET g == active.gamepad /\ pad # None
        gt == IF g THEN GamepadTranslate(b, ax, bt, ba, dt) ELSE Zero3
        gr == IF g THEN GamepadRotate(b, ax, bt, ba, dt) ELSE Zero3
        kt == IF active.keymouse THEN KeyTranslate(kb, ks, dt) ELSE Zero3
        kr == IF active.keymouse THEN KeyRotate(kb, ks, evs, dt) ELSE Zero3
    IN  [translate |-> Add(gt, kt), rotate |-> Add(gr, kr)]

----------------------------------------------------------------------------
(* Camera frame integrator: camera_movement_system, systems.rs 104-148 *)

\* systems.rs 107-112
Orthonormalize(fwd, up) ==
    LET right0 == Cross(fwd, up)
        up1 == Cross(right0, fwd)
        fwd1 == Cross(up1, right0)
        up2 == Normalize(up1)
        fwd2 == Normalize(fwd1)
    IN  [fwd |-> fwd2, up |-> up2, right |-> Cross(fwd2, up2)]

\* Variant of the integration step whose y rotation turns fwd and forgets up
\* (line 141 is missing).
IntegrateStaleUp(cam, T, R, active) ==
    LET b == Orthonormalize(cam.fwd, cam.up)
        position == Add(cam.position,
                        Scale(cam.speed_translate, MatMul(b.fwd, b.up, b.right, T)))
        x_rot == invert(R[1], active.invert_x)
        x_rot_quat == FromAxisAngle(b.up, x_rot * cam.speed_rotate)
        fwd3 == QuatMul(x_rot_quat, b.fwd)
        right3 == QuatMul(x_rot_quat, b.right)
        y_rot == invert(R[2], active.invert_y)
        y_rot_quat == FromAxisAngle(right3, y_rot * cam.speed_rotate)
        fwd4 == QuatMul(y_rot_quat, fwd3)
        z_rot_quat == FromAxisAngle(fwd4, R[3] * cam.speed_rotate)
        up5 == QuatMul(z_rot_quat, b.up)
    IN  [cam EXCEPT !.fwd = fwd4, !.up = up5, !.position = position]

\* systems.rs 104-148, for one camera
Integrate(cam, T, R, active) ==
    LET b == Orthonormalize(cam.fwd, cam.up)
        position == Add(cam.position,
                        Scale(cam.speed_translate, MatMul(b.fwd, b.up, b.right, T)))
        x_rot == invert(R[1], active.invert_x)
        x_rot_quat == FromAxisAngle(b.up, x_rot * cam.speed_rotate)
        fwd3 == QuatMul(x_rot_quat, b.fwd)
        right3 == QuatMul(x_rot_quat, b.right)
        y_rot == invert(R[2], active.invert_y)
        y_rot_quat == FromAxisAngle(right3, y_rot * cam.speed_rotate)
        fwd4 == QuatMul(y_rot_quat, fwd3)
        up4 == QuatMul(y_rot_quat, b.up)
        z_rot_quat == FromAxisAngle(fwd4, R[3] * cam.speed_rotate)
        up5 == QuatMul(z_rot_quat, up4)
    IN  [cam EXCEPT !.fwd = fwd4, !.up = up5, !.position = position]

\* The shortcut of line 36 fused with the run: a variant that integrates even
\* when both control schemes are off.
MovementAlways(cams, active, pad, b, kb, dt, ks, ax, bt, ba, evs) ==
    LET i == Intent(active, pad, b, kb, dt, ks, ax, bt, ba, evs)
    IN  [cameras |-> [c \in DOMAIN cams |->
                         Integrate(cams[c], i.translate, i.rotate, active)],
         translate |-> i.translate, rotate |-> i.rotate,
         motion |-> IF active.keymouse THEN <<>> ELSE evs]

\* camera_movement_system as a function of what it reads: the cameras after
\* the run, the two intent vectors, and the mouse motions left unread.
Movement(cams, active, pad, b, kb, dt, ks, ax, bt, ba, evs) ==
    IF ~(active.gamepad \/ active.keymouse)
    THEN [cameras |-> cams, translate |-> Zero3, rotate |-> Zero3, motion |-> evs]
    ELSE LET i == Intent(active, pad, b, kb, dt, ks, ax, bt, ba, evs)
         IN  [cameras |-> [c \in DOMAIN cams |->
                              Integrate(cams[c], i.translate, i.rotate, active)],
              translate |-> i.translate, rotate |-> i.rotate,
              motion |-> IF active.keymouse THEN <<>> ELSE evs]

Abs(x) == IF x < 0 THEN 0 - x ELSE x
InBox(p) == Abs(p[1]) + Abs(p[2]) + Abs(p[3]) <= MaxPos

camera_movement_system ==
    LET r == Movement(cameras, debug_camera_active, active_gamepad, gamepad_bindings,
                      DefaultKeyboardBindings, time, keys, axes, buttons,
                      button_axes, motion_evr)
    IN  /\ \A c \in DOMAIN cameras : InBox(r.cameras[c].position)
        /\ cameras' = r.cameras
        /\ local_translate_vec' = r.translate
        /\ rotate_vec' = r.rotate
        /\ motion_evr' = r.motion
        /\ last' = "camera_movement_system"
        /\ UNCHANGED <<padVars, debug_camera_active, gamepad_bindings, cursorVars,
                       time, keys, axes, buttons, button_axes, transforms>>

----------------------------------------------------------------------------
(* Transform publisher: camera_update_system, systems.rs 155-167 *)

IdentityTransform ==
    [translation |-> Zero3, rotation |-> <<<<1, 0, 0>>, <<0, 1, 0>>, <<0, 0, 1>>>>]

\* Transform::from_translation(t).looking_at(target, up): the rotation is kept
\* as the columns (right, up, forward) of its matrix.
LookingAt(t, target, up) ==
    LET forward == Normalize(Add(t, Scale(-1, target)))
        right == Normalize(Cross(up, forward))
    IN  [translation |-> t, rotation |-> <<right, Cross(forward, right), forward>>]

\* The transforms after camera_update_system.  fwd is in units and the
\* position in halves, so position + fwd is position + One * fwd.
Publish(tr, cams, active) ==
    IF active.gamepad \/ active.keymouse
    THEN [c \in DOMAIN cams |->
            LookingAt(cams[c].position,
                      Add(cams[c].position, Scale(One, cams[c].fwd)), cams[c].up)]
    ELSE tr

camera_update_system ==
    /\ transforms' = Publish(transforms, cameras, debug_camera_active)
    /\ last' = "camera_update_system"
    /\ UNCHANGED <<padVars, debug_camera_active, gamepad_bindings, cursorVars,
                   inputVars, cameras, local_translate_vec, rotate_vec>>

----------------------------------------------------------------------------
(* The input layer: what a frame's device state can be *)

Deltas == 0 .. MaxDelta
AxisValues == (0 - MaxAxis) .. MaxAxis
MouseDeltas == {<<x, y>> : x, y \in (0 - MaxMouse) .. MaxMouse}

Neutral ==
    [keys |-> {}, axes |-> [a \in GamepadAxisTypes |-> Some(0)], buttons |-> {},
     button_axes |-> [b \in GamepadButtonTypes |-> Some(0)], motion |-> <<>>]

\* The keyboard alone
KeyInputs ==
    {[Neutral EXCEPT !.keys = ks] :
        ks \in {{k} : k \in KeyCodes} \cup
               {{"W", "S"}, {"Space", "LShift"}, {"A", "D"}, {"Q", "E"}, {"W", "X"},
                {"W", "S", "Space", "LShift", "A", "D", "Q", "E"}}}

\* The mouse alone: one motion event, or two
MouseInputs ==
    {[Neutral EXCEPT !.motion = <<d>>] : d \in MouseDeltas} \cup
    {[Neutral EXCEPT !.motion = <<d, e>>] : d, e \in {<<1, 0>>, <<0, -1>>}}

\* The gamepad alone: one stick axis deflected, a trigger pulled, buttons held,
\* or a device that reports no axes at all
PadInputs ==
    {[Neutral EXCEPT !.axes[a] = Some(v)] :
        a \in GamepadAxisTypes, v \in AxisValues \ {0}} \cup
    {[Neutral EXCEPT !.axes["LeftStickX"] = Some(v), !.axes["RightStickX"] = Some(v)] :
        v \in AxisValues \ {0}} \cup
    {[Neutral EXCEPT !.button_axes[b] = Some(v)] :
        b \in {"LeftTrigger2", "RightTrigger2"}, v \in 1 .. MaxAxis} \cup
    {[Neutral EXCEPT !.buttons = bs] :
        bs \in {{"LeftTrigger"}, {"RightTrigger"}, {"LeftTrigger", "RightTrigger"}}} \cup
    {[Neutral EXCEPT !.axes = [a \in GamepadAxisTypes |-> None],
                     !.button_axes = [b \in GamepadButtonTypes |-> None]]}

\* Several devices at once
MixedInputs ==
    {[Neutral EXCEPT !.keys = {"W"}, !.axes["LeftStickY"] = Some(v)] :
        v \in {0 - MaxAxis, MaxAxis}} \cup
    {[Neutral EXCEPT !.keys = {"W"}, !.motion = <<<<1, 1>>>>],
     [Neutral EXCEPT !.keys = {"E"}, !.buttons = {"LeftTrigger"}],
     [Neutral EXCEPT !.motion = <<<<1, 0>>>>, !.axes["RightStickX"] = Some(MaxAxis)]}

AllInputs == {Neutral} \cup KeyInputs \cup MouseInputs \cup PadInputs \cup MixedInputs

\* A short list that reaches forward translation and each of yaw, pitch and
\* roll, alone and all three in one frame, from the keyboard, the mouse and the
\* gamepad.
FewInputs ==
    {Neutral,
     [Neutral EXCEPT !.keys = {"W"}],
     [Neutral EXCEPT !.keys = {"Q"}],
     [Neutral EXCEPT !.motion = <<<<1, 0>>>>],
     [Neutral EXCEPT !.motion = <<<<0, 1>>>>],
     [Neutral EXCEPT !.axes["RightStickX"] = Some(1)],
     [Neutral EXCEPT !.keys = {"E"}, !.motion = <<<<1, 0>>, <<0, -1>>>>]}

\* The input layer polls the devices and the clock for the next frame.
HostInput(inputs) ==
    /\ \E in \in inputs, d \in Deltas :
        /\ time' = d
        /\ keys' = in.keys
        /\ axes' = in.axes
        /\ buttons' = in.buttons
        /\ button_axes' = in.button_axes
        /\ motion_evr' = in.motion
    /\ last' = "HostInput"
    /\ UNCHANGED <<padVars, debug_camera_active, gamepad_bindings, cursorVars, camVars>>

----------------------------------------------------------------------------
(* Initial states *)

Camera(fwd, up, position, speed_translate, speed_rotate) ==
    [fwd |-> fwd, up |-> up, position |-> position,
     speed_translate |-> speed_translate, speed_rotate |-> speed_rotate]

\* One camera as the component's documentation describes it: at the origin,
\* facing -z, up = +y.
OneCamera == <<Camera(<<0, 0, -1>>, <<0, 1, 0>>, Zero3, 1, 1)>>

\* Two cameras, the first spawned with a basis that is neither unit nor
\* perpendicular (fwd = 2x, up = x + y) and with its own speeds.
\* Pairs (fwd, up) a camera can be spawned with: non-zero and not parallel,
\* some of them neither unit nor perpendicular.
SpawnBases ==
    {<<<<2, 0, 0>>, <<1, 1, 0>>>>,
     <<<<0, 0, -1>>, <<0, 1, 0>>>>,
     <<<<0, -3, 0>>, <<0, -1, 2>>>>,
     <<<<0, 0, 1>>, <<-2, 0, 3>>>>}

\* A camera that turns but does not travel, for each of these pairs.
TurnCameras == {<<Camera(b[1], b[2], <<0, 0, 1>>, 0, 1)>> : b \in SpawnBases}

TwoCameras == <<Camera(<<2, 0, 0>>, <<1, 1, 0>>, <<0, 0, 1>>, 1, 3),
                Camera(<<0, 0, -1>>, <<0, 1, 0>>, Zero3, 1, 1)>>

InitPad ==
    /\ active_gamepad = None
    /\ gamepad_evr = <<>>
    /\ settings = [deadzone_lowerbound |-> DefaultDeadzoneLower,
                   deadzone_upperbound |-> DefaultDeadzoneUpper]
    /\ plugged = {}
    /\ seen = {}
    /\ trace = <<>>

InitCursor ==
    /\ windows = <<DefaultWindow>>
    /\ window_writes = 0
    /\ cursor_runs = 0

InitInput ==
    /\ time = 0
    /\ keys = Neutral.keys
    /\ axes = Neutral.axes
    /\ buttons = Neutral.buttons
    /\ button_axes = Neutral.button_axes
    /\ motion_evr = Neutral.motion

InitCam(cams) ==
    /\ cameras = cams
    /\ transforms = [c \in DOMAIN cams |-> IdentityTransform]
    /\ local_translate_vec = Zero3
    /\ rotate_vec = Zero3

\* The application as it starts.
Init ==
    /\ InitPad
    /\ InitCursor
    /\ InitInput
    /\ InitCam(OneCamera)
    /\ debug_camera_active = DefaultDebugCameraActive
    /\ gamepad_bindings = DefaultGamepadBindings
    /\ last = "Init"

\* One frame's device state, toggles, bindings and gamepad, whatever they are,
\* with two cameras.
InitFrame ==
    /\ \E in \in AllInputs :
        /\ keys = in.keys
        /\ axes = in.axes
        /\ buttons = in.buttons
        /\ button_axes = in.button_axes
        /\ motion_evr = in.motion
    /\ time \in Deltas
    /\ debug_camera_active \in Toggles
    /\ gamepad_bindings \in {DefaultGamepadBindings, ButtonGamepadBindings}
    /\ active_gamepad \in {None, Some(0)}
    /\ plugged = {p \in Pads : active_gamepad = Some(p)}
    /\ seen = plugged
    /\ gamepad_evr = <<>>
    /\ settings = [deadzone_lowerbound |-> DeadzoneLower,
                   deadzone_upperbound |-> DeadzoneUpper]
    /\ trace = <<>>
    /\ InitCursor
    /\ InitCam(TwoCameras)
    /\ last = "Init"

\* A started application with one gamepad active and a camera that turns.
InitCams ==
    /\ InitCursor
    /\ InitInput
    /\ gamepad_evr = <<>>
    /\ settings = [deadzone_lowerbound |-> DeadzoneLower,
                   deadzone_upperbound |-> DeadzoneUpper]
    /\ trace = <<>>
    /\ active_gamepad = Some(0)
    /\ plugged = {0}
    /\ seen = {0}
    /\ debug_camera_active = DefaultDebugCameraActive
    /\ gamepad_bindings = DefaultGamepadBindings
    /\ \E cams \in TurnCameras : InitCam(cams)
    /\ last = "Init"

----------------------------------------------------------------------------
(* Specifications *)

\* The gamepad connection tracker and the input layer that feeds it.
NextPad == gamepad_connections \/ HostGamepadEvent
SpecPad == Init /\ [][NextPad]_vars

\* The cursor grab and the outside code that shares the window and the toggles.
NextCursor == cursor_grab_system \/ HostCursor \/ HostWindow \/ SetToggles
SpecCursor == Init /\ [][NextCursor]_vars

\* The two camera systems run on a frame's inputs, for every such frame.
NextFrame ==
    \/ last # "camera_movement_system" /\ camera_movement_system
    \/ last = "camera_movement_system" /\ camera_update_system
SpecFrame == InitFrame /\ [][NextFrame]_vars

\* The two camera systems driven through sequences of frames.
NextCams ==
    \/ last = "HostInput" /\ camera_movement_system
    \/ last = "camera_movement_system" /\ camera_update_system
    \/ last \in {"Init", "camera_update_system", "SetToggles"} /\ HostInput(FewInputs)
    \/ last \in {"Init", "camera_update_system"} /\ SetToggles
SpecCams == InitCams /\ [][NextCams]_vars

----------------------------------------------------------------------------
(* Claims about the gamepad connection tracker, under SpecPad *)

SetEvent(id) == [event |-> "active_gamepad_set", gamepad_id |-> id]
RemovedEvent(id) == [event |-> "active_gamepad_removed", gamepad_id |-> id]

\* trace[i .. i+3] is connect(a), connect(b), disconnect(b), disconnect(a),
\* read while no gamepad was active.
Scenario(i, a, b) ==
    /\ i + 3 <= Len(trace)
    /\ trace[i].before = None
    /\ trace[i].ev = ConnectedEv(a)
    /\ trace[i + 1].ev = ConnectedEv(b)
    /\ trace[i + 2].ev = DisconnectedEv(b)
    /\ trace[i + 3].ev = DisconnectedEv(a)

\* C1: first-connected wins.  A connect event read while a gamepad is active
\* leaves the active id as it is, and so does a disconnect event of any other
\* id; hence connect(A), connect(B), disconnect(B), disconnect(A), read from
\* Unset with A # B, leave A active after connect(B) and after disconnect(B),
\* and Unset after disconnect(A).  The resource holds what the last event left.
C1_FirstConnectedWins ==
    /\ \A i \in 1 .. Len(trace) :
        /\ (trace[i].ev.kind = "Connected" /\ trace[i].before # None)
              => trace[i].after = trace[i].before
        /\ (trace[i].ev.kind = "Disconnected"
               /\ trace[i].before # Some(trace[i].ev.gamepad))
              => trace[i].after = trace[i].before
        /\ i < Len(trace) => trace[i + 1].before = trace[i].after
    /\ \A i \in 1 .. Len(trace) : \A a, b \in Pads :
        (a # b /\ Scenario(i, a, b))
           => /\ trace[i].after = Some(a)
              /\ trace[i + 1].after = Some(a)
              /\ trace[i + 2].after = Some(a)
              /\ trace[i + 3].after = None
    /\ trace # <<>> => active_gamepad = trace[Len(trace)].after

\* The four events of C1 have been read, the last of them leaving Unset.
C1_Witness ==
    /\ \E i \in 1 .. Len(trace) : \E a, b \in Pads :
          a # b /\ Scenario(i, a, b) /\ trace[i + 3].after = None
    /\ active_gamepad = None

\* C8: the deadzone bounds (-0.1, 0.1) are written and active_gamepad_set is
\* emitted exactly by the events that take Unset to Active(id), once each;
\* every other connect event and every disconnect event writes no setting;
\* active_gamepad_removed is emitted exactly by the disconnect of the active
\* gamepad, which clears the state.  The settings hold the deadzone from the
\* first such transition on, and their defaults before.
C8_DeadzoneOncePerActivation ==
    /\ \A i \in 1 .. Len(trace) :
        LET e == trace[i]
            activates == e.ev.kind = "Connected" /\ e.before = None
            removes == e.ev.kind = "Disconnected" /\ e.before = Some(e.ev.gamepad)
        IN  /\ activates => (e.after = Some(e.ev.gamepad) /\ e.writes = 2
                               /\ e.logged = <<SetEvent(e.ev.gamepad)>>)
            /\ removes => (e.after = None /\ e.writes = 0
                             /\ e.logged = <<RemovedEvent(e.ev.gamepad)>>)
            /\ ~(activates \/ removes) => (e.after = e.before /\ e.writes = 0
                                             /\ e.logged = <<>>)
    /\ settings = IF \E i \in 1 .. Len(trace) : trace[i].writes > 0
                  THEN [deadzone_lowerbound |-> DeadzoneLower,
                        deadzone_upperbound |-> DeadzoneUpper]
                  ELSE [deadzone_lowerbound |-> DefaultDeadzoneLower,
                        deadzone_upperbound |-> DefaultDeadzoneUpper]

\* Two activations have been read, with an ignored connect and an ignored
\* disconnect among the events.
C8_Witness ==
    /\ Cardinality({i \in 1 .. Len(trace) : trace[i].writes = 2}) = 2
    /\ \E i \in 1 .. Len(trace) :
          trace[i].ev.kind = "Connected" /\ trace[i].before # None
    /\ \E i \in 1 .. Len(trace) :
          trace[i].ev.kind = "Disconnected" /\ trace[i].after # None
    /\ settings.deadzone_lowerbound = DeadzoneLower

\* C10: the active gamepad, when set, is one the events read so far have
\* connected and not since disconnected; once every event is read it is one
\* the host still has plugged in; and an event that takes Unset to Active is a
\* connect event, which makes its own gamepad the active one.
C10_ActiveIsConnected ==
    /\ active_gamepad # None => active_gamepad[1] \in seen
    /\ gamepad_evr = <<>> => seen = plugged
    /\ \A i \in 1 .. Len(trace) :
        (trace[i].before = None /\ trace[i].after # None)
           => /\ trace[i].ev.kind = "Connected"
              /\ trace[i].after = Some(trace[i].ev.gamepad)

\* The active gamepad has been pulled out while another one stayed plugged in.
C10_Witness ==
    /\ active_gamepad = None
    /\ seen # {}
    /\ gamepad_evr = <<>>
    /\ \E i \in 1 .. Len(trace) :
          trace[i].ev.kind = "Disconnected" /\ trace[i].before = Some(trace[i].ev.gamepad)

----------------------------------------------------------------------------
(* Claims about the cursor grab, under SpecCursor *)

\* C4: after any run of cursor_grab_system with a primary window present,
\* whatever the cursor was before, keymouse = true implies a hidden cursor with
\* grab mode Locked and keymouse = false a visible cursor with grab mode None.
C4_CursorSynced ==
    (last = "cursor_grab_system" /\ Len(windows) = 1)
       => windows[1].cursor =
             IF debug_camera_active.keymouse
             THEN [visible |-> FALSE, grab_mode |-> "Locked"]
             ELSE [visible |-> TRUE, grab_mode |-> "None"]

\* C5: a run of cursor_grab_system that finds keymouse = true and a visible
\* cursor makes one toggle, to hidden and Locked; a run that follows another
\* run, with no outside write to the toggles or the window in between, writes
\* nothing to the window.
C5_GrabOnceThenIdle ==
    [][(last' = "cursor_grab_system" /\ Len(windows) = 1)
          => /\ (debug_camera_active.keymouse /\ windows[1].cursor.visible)
                   => /\ windows'[1].cursor = [visible |-> FALSE, grab_mode |-> "Locked"]
                      /\ window_writes' = 2
             /\ cursor_runs >= 1 => (windows' = windows /\ window_writes' = 0)]_vars

\* Two runs in a row with keymouse = true: the cursor is hidden and locked and
\* the second run wrote nothing.
C5_Witness ==
    /\ last = "cursor_grab_system"
    /\ cursor_runs = 2
    /\ window_writes = 0
    /\ debug_camera_active.keymouse
    /\ Len(windows) = 1
    /\ windows[1].cursor = [visible |-> FALSE, grab_mode |-> "Locked"]

----------------------------------------------------------------------------
(* Claims about the two camera systems *)

Active == debug_camera_active.gamepad \/ debug_camera_active.keymouse

Orthonormal(fwd, up) == Dot(fwd, fwd) = 1 /\ Dot(up, up) = 1 /\ Dot(fwd, up) = 0

\* (f2, u2) is the orthonormal pair with f2 along f and u2 in the half plane
\* that f bounds and u lies in.
Reorthonormalised(f, u, f2, u2) ==
    /\ Orthonormal(f2, u2)
    /\ Cross(f2, f) = Zero3 /\ Dot(f2, f) > 0
    /\ Dot(u2, Cross(f, u)) = 0 /\ Dot(u2, u) > 0

\* The gamepad adds nothing to the intents of a run from this state.
GamepadSilent ==
    \/ ~debug_camera_active.gamepad
    \/ active_gamepad = None
    \/ (axes = Neutral.axes /\ buttons = {} /\ button_axes = Neutral.button_axes)

\* The keyboard and the mouse add nothing to the intents of a run from this state.
KeymouseSilent ==
    \/ ~debug_camera_active.keymouse
    \/ (keys \subseteq {"X"} /\ motion_evr = <<>>)

\* C2 (under SpecFrame): while both toggles are false no run of
\* camera_movement_system or camera_update_system changes a camera's stored
\* fwd, up, position or speeds, nor a camera's transform, whatever the keys,
\* the mouse motions, the gamepad state and the elapsed time.
C2_Inactive ==
    [][~Active => (cameras' = cameras /\ transforms' = transforms)]_vars

\* Both systems have run with the toggles off, a key held, and time elapsed.
C2_Witness ==
    /\ ~Active
    /\ last = "camera_update_system"
    /\ time > 0
    /\ "W" \in keys
    /\ cameras = TwoCameras
    /\ transforms = [c \in DOMAIN cameras |-> IdentityTransform]

\* C3 (under SpecCams): after every run of camera_movement_system with a
\* toggle active, each camera's stored fwd and up are of length one and
\* perpendicular, whatever the sequence of inputs and inversion settings, the
\* camera having started from a non-zero, non-parallel pair.
C3_Orthonormal ==
    (last = "camera_movement_system" /\ Active)
       => \A c \in DOMAIN cameras : Orthonormal(cameras[c].fwd, cameras[c].up)

\* A run with x inverted and a non-zero rotation-x intent has left the camera
\* facing -y with up towards -z, an orientation none of the cameras starts in.
C3_Witness ==
    /\ last = "camera_movement_system"
    /\ Active
    /\ debug_camera_active.invert_x
    /\ rotate_vec[1] # 0
    /\ cameras[1].fwd = <<0, -1, 0>>
    /\ cameras[1].up = <<0, 0, -1>>

\* C6 as stated (under SpecFrame): in a run with delta = 0 both intents are
\* zero and every camera's stored position, fwd and up are what they were.
C6_ZeroDeltaKeepsBasis ==
    [][(time = 0 /\ last' = "camera_movement_system")
          => /\ local_translate_vec' = Zero3
             /\ rotate_vec' = Zero3
             /\ \A c \in DOMAIN cameras :
                   /\ cameras'[c].position = cameras[c].position
                   /\ cameras'[c].fwd = cameras[c].fwd
                   /\ cameras'[c].up = cameras[c].up]_vars

\* C6 as amended (under SpecFrame): in a run with delta = 0 both intents are
\* zero and every camera's position and speeds are what they were; with both
\* toggles off fwd and up are what they were as well, and with a toggle on
\* they are the stored pair made orthonormal (fwd rescaled to length one, up
\* made perpendicular to it within the plane of the two and of length one),
\* which is the stored pair itself when that was orthonormal already.
C6_ZeroDeltaReorthonormalises ==
    [][(time = 0 /\ last' = "camera_movement_system")
          => /\ local_translate_vec' = Zero3
             /\ rotate_vec' = Zero3
             /\ \A c \in DOMAIN cameras :
                   /\ cameras'[c].position = cameras[c].position
                   /\ cameras'[c].speed_translate = cameras[c].speed_translate
                   /\ cameras'[c].speed_rotate = cameras[c].speed_rotate
                   /\ IF Active
                      THEN Reorthonormalised(cameras[c].fwd, cameras[c].up,
                                             cameras'[c].fwd, cameras'[c].up)
                      ELSE cameras'[c].fwd = cameras[c].fwd /\ cameras'[c].up = cameras[c].up
                   /\ Orthonormal(cameras[c].fwd, cameras[c].up)
                         => (cameras'[c].fwd = cameras[c].fwd
                               /\ cameras'[c].up = cameras[c].up)]_vars

\* A run with delta = 0, both schemes on, a stick deflected and a key held:
\* the first camera has not moved and faces +x at length one.
C6_Witness ==
    /\ last = "camera_movement_system"
    /\ time = 0
    /\ debug_camera_active.keymouse /\ debug_camera_active.gamepad
    /\ active_gamepad # None
    /\ "W" \in keys
    /\ axes["LeftStickY"] = Some(MaxAxis)
    /\ local_translate_vec = Zero3
    /\ cameras[1].position = TwoCameras[1].position
    /\ cameras[1].fwd = <<1, 0, 0>> /\ cameras[1].up = <<0, 1, 0>>

\* A run from this state has keymouse on, nothing from the gamepad, no mouse
\* motion, and k the only bound key held.
OnlyKey(k) ==
    /\ debug_camera_active.keymouse
    /\ GamepadSilent
    /\ motion_evr = <<>>
    /\ keys \ {"X"} = {k}

\* The run has moved every camera by speed_translate * 0.5 * delta along the
\* axis of its orthonormalised frame that local picks (x = fwd, y = up,
\* z = right), and has not turned it.
MovedAlong(local) ==
    \A c \in DOMAIN cameras :
        /\ Reorthonormalised(cameras[c].fwd, cameras[c].up, cameras'[c].fwd, cameras'[c].up)
        /\ cameras'[c].position =
              Add(cameras[c].position,
                  Scale(cameras[c].speed_translate * Half * time,
                        MatMul(cameras'[c].fwd, cameras'[c].up,
                               Cross(cameras'[c].fwd, cameras'[c].up), local)))

SameDeflection(v) ==
    /\ v # 0
    /\ axes["RightStickX"] = Some(v)
    /\ axes["LeftStickX"] = Some(v)
    /\ gamepad_bindings = DefaultGamepadBindings
    /\ debug_camera_active.gamepad
    /\ active_gamepad # None
    /\ KeymouseSilent

\* C9 as stated (under SpecFrame): with the default bindings the same
\* deflection v # 0 gives a rotation-x intent of twice the magnitude of the
\* lateral translation intent.
C9_YawDoubled ==
    [][\A v \in AxisValues :
          (last' = "camera_movement_system" /\ SameDeflection(v))
             => Abs(rotate_vec'[1]) = 2 * Abs(local_translate_vec'[3])]_vars

\* C9 as amended (under SpecFrame): with the default bindings the same
\* deflection v # 0 gives a rotation-x intent of the same magnitude as the
\* lateral translation intent and of the opposite sign: -v * delta against
\* v * delta.
C9_YawSameMagnitude ==
    [][\A v \in AxisValues :
          (last' = "camera_movement_system" /\ SameDeflection(v))
             => /\ rotate_vec'[1] = 0 - v * time
                /\ local_translate_vec'[3] = v * time
                /\ Abs(rotate_vec'[1]) = Abs(local_translate_vec'[3])]_vars

\* Both sticks pushed left by 0.5 for one second, gamepad only: the lateral
\* intent is -0.5 and the rotation-x intent is 0.5.
C9_Witness ==
    /\ last = "camera_movement_system"
    /\ time = 1
    /\ axes["RightStickX"] = Some(-1)
    /\ axes["LeftStickX"] = Some(-1)
    /\ gamepad_bindings = DefaultGamepadBindings
    /\ debug_camera_active.gamepad /\ ~debug_camera_active.keymouse
    /\ active_gamepad # None
    /\ local_translate_vec[3] = -1
    /\ rotate_vec[1] = 1

====
